---- MODULE Spec2Model ----
(***************************************************************************)
(* A model of the notification dispatch engine of src/main.py:             *)
(* BlueskyBot.run and its cycle (_handle_client_operations,                *)
(* _process_batch), CodeExecutionBot.filter_notifications,                 *)
(* process_notification, _execute_code and the sandbox hooks.              *)
(*                                                                         *)
(* Spec is the run loop with its collaborators; HistorySpec is the same    *)
(* loop remembering what earlier cycles answered; FilterSpec, ParseSpec    *)
(* and ShapeSpec put one step of it (filtering a listing, parsing a        *)
(* request, shaping an output) on a wide range of inputs.                  *)
(*                                                                         *)
(* Texts are sequences of symbols.  "SP" and "NL" are the whitespace       *)
(* characters space and newline; every other symbol stands for a run of    *)
(* non-whitespace characters ("#", "!", "@", "bot", "python", ...).        *)
(***************************************************************************)
EXTENDS Naturals, Integers, Sequences, FiniteSets, TLC

\* ------------------------------------------------------------------ bounds
MaxNotes == 2   \* notifications that arrive during a behaviour
MaxFaults == 2   \* failures the collaborators inject during a behaviour
MaxBatch == 2   \* notifications of a listing that is filtered on its own

\* -------------------------------------------------------- program constants
TRUNCATE_LIMIT == 300
TRUNCATE_WINDOW == 297

\* the pauses of run, in poll intervals
POLL_PAUSE == 1
LONG_PAUSE == 2

\* self.sandbox = None: no sandbox handle is held (sandboxes are numbered from 1)
NoSandbox == 0

\* ------------------------------------------------------------ text helpers
IsSpace(c) == c \in {"SP", "NL"}

Min(a, b) == IF a < b THEN a ELSE b

Max(a, b) == IF a > b THEN a ELSE b

\* s[:n] of Python for 0 <= n
Prefix(s, n) == SubSeq(s, 1, Min(n, Len(s)))

\* s[n:] of Python for 0 <= n (0-based n)
Suffix(s, n) == SubSeq(s, n + 1, Len(s))

RECURSIVE lstrip(_)
lstrip(s) == IF s # <<>> /\ IsSpace(Head(s)) THEN lstrip(Tail(s)) ELSE s

RECURSIVE rstrip(_)
rstrip(s) ==
    IF s # <<>> /\ IsSpace(s[Len(s)]) THEN rstrip(SubSeq(s, 1, Len(s) - 1)) ELSE s

\* str.strip()
strip(s) == rstrip(lstrip(s))

\* str.find(c), 0-based, -1 when absent
find(s, c) ==
    IF \E i \in 1..Len(s) : s[i] = c
    THEN (CHOOSE i \in 1..Len(s) : s[i] = c /\ \A j \in 1..(i - 1) : s[j] # c) - 1
    ELSE -1

\* str.rfind(c), 0-based, -1 when absent
rfind(s, c) ==
    IF \E i \in 1..Len(s) : s[i] = c
    THEN (CHOOSE i \in 1..Len(s) : s[i] = c /\ \A j \in (i + 1)..Len(s) : s[j] # c) - 1
    ELSE -1

\* str.split("\n", maxsplit=1)
split_newline(s) ==
    LET i == find(s, "NL")
    IN  IF i = -1 THEN <<s>> ELSE <<Prefix(s, i), Suffix(s, i + 1)>>

\* str.split(): the maximal runs of non-whitespace characters
RECURSIVE split_ws(_, _)
split_ws(s, cur) ==
    IF s = <<>>
    THEN IF cur = <<>> THEN <<>> ELSE <<cur>>
    ELSE IF IsSpace(Head(s))
         THEN (IF cur = <<>> THEN <<>> ELSE <<cur>>) \o split_ws(Tail(s), <<>>)
         ELSE split_ws(Tail(s), Append(cur, Head(s)))

split(s) == split_ws(s, <<>>)

\* str.startswith(p)
startswith(s, p) == Len(s) >= Len(p) /\ SubSeq(s, 1, Len(p)) = p

\* ------------------------------------------------------------ notifications
\* self.client.me.handle
me_handle == "bot"

T_python == <<"#", "!", "SP", "@", "bot", "SP", "python", "NL", "x">>
T_hash == <<"SP", "#", "!", "SP", "@", "bot", "SP", "#", "python", "NL", "x", "NL">>
T_nobody == <<"#", "!", "SP", "@", "bot", "SP", "python", "NL">>
T_invalid == <<"#", "!", "SP", "@", "bot", "NL", "x">>
T_wrong == <<"#", "!", "SP", "@", "eve", "SP", "python", "NL", "x">>
T_plain == <<"x", "SP", "#", "!">>

\* What the record of a notification can look like: reason, the author's
\* viewer flags, the text of the record and whether the record is a reply.
Profile(r, v, t, re) == [reason |-> r, viewer |-> v, text |-> t, reply |-> re]

\* The notifications that arrive in the model: who writes what.
Arrivals ==
    { <<"alice", Profile("mention", {}, T_python, FALSE)>>,
      <<"carol", Profile("reply", {}, T_hash, TRUE)>>,
      <<"carol", Profile("reply", {}, T_invalid, TRUE)>>,
      <<"alice", Profile("mention", {"muted"}, T_python, FALSE)>>,
      <<"carol", Profile("mention", {}, T_nobody, FALSE)>>,
      <<"alice", Profile("mention", {}, T_wrong, FALSE)>>,
      <<"carol", Profile("mention", {}, T_plain, FALSE)>> }

\* A notification of the server's list; uri is unique per notification.
Notification(u, a, p, t) ==
    [uri |-> u, author |-> a, reason |-> p.reason, viewer |-> p.viewer,
     text |-> p.text, reply |-> p.reply, indexed_at |-> t]

\* ------------------------------------------------------- response texts
TOO_MANY == "Error: Too many mentions. Please wait for a response before mentioning again."
MISSING_BODY == "Error: Missing code after shebang."
INVALID_SHEBANG == "Error: Invalid shebang."
WRONG_INTERPRETER == "Error: Wrong interpreter."
SANDBOX_ERROR == "Error creating sandbox: e"
EXECUTION_ERROR == "Error: e"
PROCESSING_ERROR == "Error processing your request: e"
OUTPUT == "output"

Response(t) == [text |-> t, images |-> <<>>]

\* the value of a local variable that is not bound yet
Unbound == [text |-> "", images |-> <<>>]

NoRequest == [lang |-> <<>>, payload |-> "", code |-> <<>>]

\* One call of the client that tells whether the session works: get_profile,
\* or login, which _create_client makes with the user name and the password.
ClientCall(op, ok) ==
    [op |-> op, with |-> IF op = "login" THEN "password" ELSE "session", ok |-> ok]

\* ------------------------------------------------------------------- state
VARIABLES
    clock,              \* the server's clock
    inbox,              \* the server's notification list, newest first
    seen_at,            \* the server's seen marker, set by update_seen
    pc,                 \* position of the run loop
    faults,             \* failures injected so far
    last_seen_at,       \* _handle_client_operations: last_seen_at
    all_notifications,  \* _handle_client_operations: all_notifications
    notifications,      \* _process_batch: notifications (the filtered batch)
    idx,                \* _process_batch: position of the for loop
    response,           \* _process_batch: response
    request,            \* process_notification: lang, the context payload and code
    sandbox,            \* self.sandbox
    sandbox_to_use,     \* _execute_code: sandbox_to_use
    local_sandbox,      \* _execute_code: local_sandbox
    live,               \* sandboxes opened and not torn down
    next_sandbox,       \* identity of the next sandbox the service opens
    published,          \* send_post calls of this cycle, in order
    executions,         \* rows inserted into db["executions"] in this cycle
    sandbox_calls,      \* Sandbox(), run_code and kill calls of this cycle
    seen_calls,         \* update_seen calls of this cycle
    fetch_failures,     \* retry of _fetch_notifications: failed attempts so far
    client_calls,       \* get_profile and login calls of the latest cycle
    context_calls,      \* get_posts calls of this cycle
    paused,             \* the pause the loop comes out of, in poll intervals
    session_file,       \* what is stored under self.session_file
    answered,           \* history: notifications answered in an earlier cycle
    output,             \* _execute_code: output, as joined from the logs
    result_text,        \* _execute_code: result["text"]
    shaped              \* whether the output was shaped into the text

vars == <<clock, inbox, seen_at, pc, faults, last_seen_at,
          all_notifications, notifications, idx, response, request,
          sandbox, sandbox_to_use, local_sandbox, live, next_sandbox,
          published, executions, sandbox_calls, seen_calls, fetch_failures,
          client_calls, context_calls, paused, session_file, answered,
          output, result_text, shaped>>

server_vars == <<clock, inbox, seen_at>>

batch_vars == <<last_seen_at, all_notifications, notifications, idx>>

item_vars == <<response, request>>

sandbox_vars == <<sandbox, sandbox_to_use, local_sandbox, live, next_sandbox>>

log_vars == <<published, executions, sandbox_calls, seen_calls>>

shape_vars == <<output, result_text, shaped>>

client_vars == <<client_calls, paused, session_file>>

bot_vars == <<server_vars, pc, faults, batch_vars, item_vars, sandbox_vars, log_vars,
              fetch_failures, client_vars, context_calls, answered>>

InitBot ==
    /\ clock = 1
    /\ inbox = <<>>
    /\ seen_at = 0
    /\ pc = "health"
    /\ faults = 0
    /\ last_seen_at = 0
    /\ all_notifications = <<>>
    /\ notifications = <<>>
    /\ idx = 0
    /\ response = Unbound
    /\ request = NoRequest
    /\ sandbox = NoSandbox
    /\ sandbox_to_use = NoSandbox
    /\ local_sandbox = FALSE
    /\ live = {}
    /\ next_sandbox = 1
    /\ published = <<>>
    /\ executions = <<>>
    /\ sandbox_calls = <<>>
    /\ seen_calls = <<>>
    /\ fetch_failures = 0
    /\ client_calls = <<ClientCall("login", TRUE)>>
    /\ context_calls = <<>>
    /\ paused = 0
    /\ session_file = "absent"
    /\ answered = {}

Init ==
    /\ InitBot
    /\ output = <<>>
    /\ result_text = <<>>
    /\ shaped = FALSE

\* A collaborator may fail only while the failure budget lasts.
MayFail == faults < MaxFaults

\* ----------------------------------------------------------------- server
\* A notification arrives at the account.  The bot reads the clock and the
\* list only in GetCurrentTime and FetchNotifications, so an arrival at any
\* other point of a cycle is the same as one before the next cycle.
Arrive ==
    /\ Len(inbox) < MaxNotes
    /\ pc \in {"health", "list"}
    /\ \E ap \in Arrivals :
           inbox' = <<Notification(Len(inbox) + 1, ap[1], ap[2], clock)>> \o inbox
    /\ UNCHANGED <<clock, seen_at, pc, faults, batch_vars, item_vars,
                   sandbox_vars, log_vars>>
    /\ UNCHANGED <<fetch_failures, client_vars, context_calls, answered>>
    /\ UNCHANGED shape_vars

\* list_notifications: every notification with its read flag.
ListNotifications ==
    [i \in 1..Len(inbox) |->
        [uri |-> inbox[i].uri, author |-> inbox[i].author,
         reason |-> inbox[i].reason, viewer |-> inbox[i].viewer,
         text |-> inbox[i].text, reply |-> inbox[i].reply,
         is_read |-> inbox[i].indexed_at <= seen_at]]

\* ---------------------------------------------------------------- filters
\* The base filters without the one on muted_by_list.
filter_base_notifications_short(ns) ==
    LET unread(n) == ~n.is_read
        reason(n) == n.reason \in {"mention", "reply"}
        f1(n) == "blocked_by" \notin n.viewer
        f2(n) == "blocking" \notin n.viewer
        f3(n) == "blocking_by_list" \notin n.viewer
        f4(n) == "muted" \notin n.viewer
    IN  SelectSeq(SelectSeq(SelectSeq(SelectSeq(SelectSeq(
            SelectSeq(ns, unread), reason), f1), f2), f3), f4)

filter_base_notifications(ns) ==
    LET unread(n) == ~n.is_read
        reason(n) == n.reason \in {"mention", "reply"}
        f1(n) == "blocked_by" \notin n.viewer
        f2(n) == "blocking" \notin n.viewer
        f3(n) == "blocking_by_list" \notin n.viewer
        f4(n) == "muted" \notin n.viewer
        f5(n) == "muted_by_list" \notin n.viewer
    IN  SelectSeq(SelectSeq(SelectSeq(SelectSeq(SelectSeq(SelectSeq(
            SelectSeq(ns, unread), reason), f1), f2), f3), f4), f5)

should_handle_notification(n) == startswith(strip(n.text), <<"#", "!">>)

\* A rate limiter that never remembers an author.
RECURSIVE rate_limit_forgetful(_, _, _, _)
rate_limit_forgetful(ns, seen_authors, forwarded, limited) ==
    IF ns = <<>>
    THEN [forwarded |-> forwarded, limited |-> limited]
    ELSE IF Head(ns).author \in seen_authors
         THEN rate_limit_forgetful(Tail(ns), seen_authors, forwarded,
                                   Append(limited, Head(ns)))
         ELSE rate_limit_forgetful(Tail(ns), seen_authors,
                                   Append(forwarded, Head(ns)), limited)

\* A rate limiter that answers the overflow and forwards the notification too.
RECURSIVE rate_limit_forwarding(_, _, _, _)
rate_limit_forwarding(ns, seen_authors, forwarded, limited) ==
    IF ns = <<>>
    THEN [forwarded |-> forwarded, limited |-> limited]
    ELSE IF Head(ns).author \in seen_authors
         THEN rate_limit_forwarding(Tail(ns), seen_authors,
                                    Append(forwarded, Head(ns)),
                                    Append(limited, Head(ns)))
         ELSE rate_limit_forwarding(Tail(ns), seen_authors \cup {Head(ns).author},
                                    Append(forwarded, Head(ns)), limited)

\* The rate-limiting loop of filter_notifications: the notifications that are
\* forwarded and those that get the overflow response, each in stream order.
RECURSIVE rate_limit(_, _, _, _)
rate_limit(ns, seen_authors, forwarded, limited) ==
    IF ns = <<>>
    THEN [forwarded |-> forwarded, limited |-> limited]
    ELSE IF Head(ns).author \in seen_authors
         THEN rate_limit(Tail(ns), seen_authors, forwarded, Append(limited, Head(ns)))
         ELSE rate_limit(Tail(ns), seen_authors \cup {Head(ns).author},
                         Append(forwarded, Head(ns)), limited)

content_filtered(ns) ==
    SelectSeq(filter_base_notifications(ns), should_handle_notification)

\* ------------------------------------------------------- shebang parsing
\* A parsing that takes the third token as the language, "#" and all.
parse_notification_verbatim(text) ==
    LET parts == split_newline(strip(text))
    IN  IF Len(parts) # 2
        THEN [error |-> MISSING_BODY, lang |-> <<>>, code |-> <<>>]
        ELSE LET tokens == split(parts[1])
             IN  IF Len(tokens) # 3
                 THEN [error |-> INVALID_SHEBANG, lang |-> <<>>, code |-> <<>>]
                 ELSE IF tokens[2] # <<"@", me_handle>>
                      THEN [error |-> WRONG_INTERPRETER, lang |-> <<>>, code |-> <<>>]
                      ELSE [error |-> "", lang |-> strip(tokens[3]), code |-> parts[2]]

\* The parsing part of process_notification: the error response, or the
\* language and the code of the request.
parse_notification(text) ==
    LET parts == split_newline(strip(text))
    IN  IF Len(parts) # 2
        THEN [error |-> MISSING_BODY, lang |-> <<>>, code |-> <<>>]
        ELSE LET tokens == split(parts[1])
             IN  IF Len(tokens) # 3
                 THEN [error |-> INVALID_SHEBANG, lang |-> <<>>, code |-> <<>>]
                 ELSE LET user == tokens[2]
                          lang0 == strip(tokens[3])
                          lang == IF startswith(lang0, <<"#">>) THEN Tail(lang0) ELSE lang0
                      IN  IF user # <<"@", me_handle>>
                          THEN [error |-> WRONG_INTERPRETER, lang |-> <<>>, code |-> <<>>]
                          ELSE [error |-> "", lang |-> lang, code |-> parts[2]]

\* ------------------------------------------------------------- log entries
\* One send_post call: the reply to note, and whether the call went through.
SendCall(note, resp, ok) == [uri |-> note.uri, text |-> resp.text, ok |-> ok]

\* A _send_response that sends again when the call raised.
send_response_retry(note, resp, ok) ==
    IF ok THEN <<SendCall(note, resp, TRUE)>>
    ELSE <<SendCall(note, resp, FALSE), SendCall(note, resp, TRUE)>>

\* _send_response: the send_post calls it makes for the response to note.  A
\* call that raises is logged and nothing else is done.
send_response(note, resp, ok) == <<SendCall(note, resp, ok)>>

\* One call to the sandbox service: Sandbox(), run_code or kill.
\* uri is the notification the call is made for (0: for the batch), code
\* what run_code is given.
SandboxCall(op, sb, scope, ok, uri, req) ==
    [op |-> op, sb |-> sb, scope |-> scope, ok |-> ok, was_live |-> sb \in live,
     uri |-> uri, code |-> IF op = "run" THEN req ELSE NoRequest]

\* The row process_notification inserts into db["executions"].
ExecutionRecord(note, res) ==
    [input |-> note.text, output |-> res.text, author |-> note.author,
     url |-> note.uri, ts |-> clock]

\* A process_notification that returns the result without the insert.
FinishUnrecorded(note, res, inserted) ==
    /\ response' = IF inserted THEN res ELSE Response(PROCESSING_ERROR)
    /\ UNCHANGED executions

\* process_notification lines 321-332 and _process_batch lines 142-148: the
\* result of _execute_code is recorded and becomes the response; when the
\* insert raises, the response is the processing error.
Finish(note, res, inserted) ==
    IF inserted
    THEN /\ executions' = Append(executions, ExecutionRecord(note, res))
         /\ response' = res
    ELSE /\ response' = Response(PROCESSING_ERROR)
         /\ UNCHANGED executions

\* ---------------------------------------------------------------- run loop
\* A run that pauses as after any other cycle when the client cannot be
\* created again.
AfterRecreateFailureShortPause == "sleep"

\* run lines 174-177: where the loop goes when _recreate_client_if_needed
\* raises.
AfterRecreateFailure == "long_sleep"

\* run, lines 172-177: _recreate_client_if_needed.  The profile call works,
\* or it fails and the client is created again, or that login fails too and
\* the loop pauses for twice the poll interval.
RecreateClientIfNeeded ==
    /\ pc = "health"
    /\ \/ /\ client_calls' = <<ClientCall("get_profile", TRUE)>>
          /\ pc' = "timestamp"
          /\ UNCHANGED faults
       \/ /\ MayFail
          /\ faults' = faults + 1
          /\ client_calls' = <<ClientCall("get_profile", FALSE), ClientCall("login", TRUE)>>
          /\ pc' = "timestamp"
       \/ /\ faults + 2 <= MaxFaults
          /\ faults' = faults + 2
          /\ client_calls' = <<ClientCall("get_profile", FALSE), ClientCall("login", FALSE)>>
          /\ pc' = AfterRecreateFailure
    /\ paused' = 0
    /\ UNCHANGED <<server_vars, batch_vars, item_vars, sandbox_vars, log_vars>>
    /\ UNCHANGED <<fetch_failures, context_calls, session_file, answered>>
    /\ UNCHANGED shape_vars

\* _handle_client_operations, line 159: get_current_time_iso.
GetCurrentTime ==
    /\ pc = "timestamp"
    /\ \/ /\ last_seen_at' = clock
          /\ clock' = clock + 1
          /\ pc' = "list"
          /\ UNCHANGED faults
       \/ /\ MayFail
          /\ faults' = faults + 1
          /\ pc' = "recover"
          /\ UNCHANGED <<clock, last_seen_at>>
    /\ UNCHANGED <<inbox, seen_at, all_notifications, notifications, idx,
                   item_vars, sandbox_vars, log_vars>>
    /\ UNCHANGED <<fetch_failures, client_vars, context_calls, answered>>
    /\ UNCHANGED shape_vars

\* A retry that lets the failure of the first attempt out to the caller.
AfterFetchFailureAbort(failures) == "recover"

\* @retry of _fetch_notifications (line 71): no number of tries is given, so
\* after any number of failed attempts the call is made again.
AfterFetchFailure(failures) == "list"

\* _fetch_notifications: one attempt of the retried call.  A failed attempt
\* is followed by another attempt.
FetchNotifications ==
    /\ pc = "list"
    /\ \/ /\ all_notifications' = ListNotifications
          /\ fetch_failures' = 0
          /\ pc' = "filter"
          /\ UNCHANGED faults
       \/ /\ MayFail
          /\ faults' = faults + 1
          /\ fetch_failures' = fetch_failures + 1
          /\ pc' = AfterFetchFailure(fetch_failures + 1)
          /\ UNCHANGED all_notifications
    /\ UNCHANGED <<server_vars, last_seen_at, notifications, idx,
                   item_vars, sandbox_vars, log_vars>>
    /\ UNCHANGED <<client_vars, context_calls, answered>>
    /\ UNCHANGED shape_vars

\* The overflow responses filter_notifications sends for the rate-limited
\* notifications; the calls whose position is in failed raise in send_post.
RECURSIVE OverflowCalls(_, _, _)
OverflowCalls(limited, failed, i) ==
    IF i > Len(limited) THEN <<>>
    ELSE send_response(limited[i], Response(TOO_MANY), i \notin failed)
         \o OverflowCalls(limited, failed, i + 1)

\* filter_notifications, called from _handle_client_operations line 161.
FilterNotifications ==
    /\ pc = "filter"
    /\ LET rl == rate_limit(content_filtered(all_notifications), {}, <<>>, <<>>)
       IN  /\ notifications' = rl.forwarded
           /\ \E failed \in SUBSET (1..Len(rl.limited)) :
                  /\ faults + Cardinality(failed) <= MaxFaults
                  /\ faults' = faults + Cardinality(failed)
                  /\ published' = published \o OverflowCalls(rl.limited, failed, 1)
    /\ pc' = "open"
    /\ UNCHANGED <<server_vars, last_seen_at, all_notifications, idx,
                   item_vars, sandbox_vars, executions, sandbox_calls, seen_calls>>
    /\ UNCHANGED <<fetch_failures, client_vars, context_calls, answered>>
    /\ UNCHANGED shape_vars

\* _process_batch line 138: before_batch_processing.
BeforeBatchProcessing ==
    /\ pc = "open"
    /\ IF notifications # <<>>
       THEN \/ /\ sandbox' = next_sandbox
               /\ live' = live \cup {next_sandbox}
               /\ next_sandbox' = next_sandbox + 1
               /\ sandbox_calls' =
                      Append(sandbox_calls, SandboxCall("open", next_sandbox, "batch", TRUE, 0, NoRequest))
               /\ UNCHANGED faults
            \/ /\ MayFail
               /\ faults' = faults + 1
               /\ sandbox' = NoSandbox
               /\ sandbox_calls' =
                      Append(sandbox_calls, SandboxCall("open", NoSandbox, "batch", FALSE, 0, NoRequest))
               /\ UNCHANGED <<live, next_sandbox>>
       ELSE UNCHANGED <<sandbox, live, next_sandbox, sandbox_calls, faults>>
    /\ idx' = 1
    /\ pc' = IF notifications # <<>> THEN "process" ELSE "close"
    /\ UNCHANGED <<server_vars, last_seen_at, all_notifications, notifications,
                   item_vars, sandbox_to_use, local_sandbox, published, executions,
                   seen_calls>>
    /\ UNCHANGED <<fetch_failures, client_vars, context_calls, answered>>
    /\ UNCHANGED shape_vars

\* A process_notification that gets the reply context of every reply, before
\* it looks at the shebang.
FetchesContextEarly(note, parsed) == note.reply

\* process_notification lines 315-316 and _prepare_python_code line 336:
\* get_posts is called for a request that parsed, in python, on a reply.
FetchesContext(note, parsed) ==
    parsed.error = "" /\ parsed.lang = <<"python">> /\ note.reply

\* A bootstrap that is given the reply context although get_posts raised.
PayloadUnguarded(note, fetched) == IF note.reply THEN "context" ELSE "null"

\* The payload _prepare_python_code encodes: the reply context when get_posts
\* answered, null otherwise.
Payload(note, fetched) == IF note.reply /\ fetched THEN "context" ELSE "null"

\* An _execute_code that never opens a sandbox of its own.
NeverLocalSandbox == FALSE

\* _execute_code line 364: no batch sandbox is held, one is opened for this
\* execution.
NeedsLocalSandbox == sandbox = NoSandbox

\* process_notification lines 297-319 and _execute_code lines 361-371:
\* parsing, for python the bootstrap with the reply context, and the sandbox
\* the code will run on: the batch sandbox, or one opened for this execution.
\* A parse failure returns its error response; a sandbox that cannot be
\* opened returns the error result, which is recorded (lines 321-332).
ProcessNotification ==
    /\ pc = "process"
    /\ LET note == notifications[idx]
           parsed == parse_notification(note.text)
       IN  IF parsed.error # ""
           THEN /\ response' = Response(parsed.error)
                /\ context_calls' =
                       IF FetchesContext(note, parsed)
                       THEN Append(context_calls, [uri |-> note.uri, ok |-> TRUE])
                       ELSE context_calls
                /\ pc' = "send"
                /\ UNCHANGED <<request, faults, sandbox_to_use, local_sandbox, live,
                               next_sandbox, sandbox_calls, executions>>
           ELSE \E fetched, opened, inserted \in BOOLEAN :
                    LET fetch_fails == FetchesContext(note, parsed) /\ ~fetched
                        opens == NeedsLocalSandbox
                        failed == (IF fetch_fails THEN 1 ELSE 0)
                                  + (IF opens /\ ~opened THEN 1 ELSE 0)
                                  + (IF opens /\ ~opened /\ ~inserted THEN 1 ELSE 0)
                        req == [lang |-> parsed.lang,
                                payload |-> IF parsed.lang = <<"python">>
                                            THEN Payload(note, fetched) ELSE "",
                                code |-> parsed.code]
                    IN  /\ fetched \/ fetch_fails
                        /\ opened \/ opens
                        /\ inserted \/ (opens /\ ~opened)
                        /\ faults + failed <= MaxFaults
                        /\ faults' = faults + failed
                        /\ context_calls' =
                               IF FetchesContext(note, parsed)
                               THEN Append(context_calls, [uri |-> note.uri, ok |-> fetched])
                               ELSE context_calls
                        /\ IF ~opens
                           THEN /\ sandbox_to_use' = sandbox
                                /\ local_sandbox' = FALSE
                                /\ request' = req
                                /\ pc' = "execute"
                                /\ UNCHANGED <<live, next_sandbox, sandbox_calls,
                                               executions, response>>
                           ELSE IF opened
                           THEN /\ sandbox_to_use' = next_sandbox
                                /\ local_sandbox' = TRUE
                                /\ live' = live \cup {next_sandbox}
                                /\ next_sandbox' = next_sandbox + 1
                                /\ sandbox_calls' =
                                       Append(sandbox_calls,
                                              SandboxCall("open", next_sandbox, "item", TRUE, note.uri, req))
                                /\ request' = req
                                /\ pc' = "execute"
                                /\ UNCHANGED <<executions, response>>
                           ELSE /\ sandbox_calls' =
                                       Append(sandbox_calls,
                                              SandboxCall("open", NoSandbox, "item", FALSE, note.uri, req))
                                /\ Finish(note, Response(SANDBOX_ERROR), inserted)
                                /\ pc' = "send"
                                /\ UNCHANGED <<request, sandbox_to_use, local_sandbox,
                                               live, next_sandbox>>
    /\ UNCHANGED <<server_vars, batch_vars, sandbox, published, seen_calls>>
    /\ UNCHANGED <<fetch_failures, client_vars, answered>>
    /\ UNCHANGED shape_vars

\* An _execute_code that kills whatever sandbox it ran the code on.
KillsAnySandbox == TRUE

\* _execute_code line 401: the sandbox is killed after the execution when it
\* was opened for it.
KillsAfterRun == local_sandbox

\* _execute_code lines 373-405 and process_notification lines 321-332:
\* run_code and the shaping of its output, or the error result when anything
\* in there raises; the sandbox of a single execution is killed, and a
\* failure of kill is passed over; the execution is recorded.
ExecuteCode ==
    /\ pc = "execute"
    /\ \E ran, killed, inserted \in BOOLEAN :
           LET note == notifications[idx]
               scope == IF local_sandbox THEN "item" ELSE "batch"
               run == SandboxCall("run", sandbox_to_use, scope, ran, note.uri, request)
               kill == SandboxCall("kill", sandbox_to_use, scope, killed, note.uri, request)
               failed == (IF ran THEN 0 ELSE 1) + (IF killed THEN 0 ELSE 1)
                         + (IF inserted THEN 0 ELSE 1)
           IN  /\ killed \/ KillsAfterRun
               /\ faults + failed <= MaxFaults
               /\ faults' = faults + failed
               /\ sandbox_calls' =
                      IF KillsAfterRun
                      THEN sandbox_calls \o <<run, kill>>
                      ELSE Append(sandbox_calls, run)
               /\ live' = IF KillsAfterRun /\ killed THEN live \ {sandbox_to_use} ELSE live
               /\ Finish(note, Response(IF ran THEN OUTPUT ELSE EXECUTION_ERROR), inserted)
    /\ sandbox_to_use' = NoSandbox
    /\ local_sandbox' = FALSE
    /\ request' = NoRequest
    /\ pc' = "send"
    /\ UNCHANGED <<server_vars, batch_vars, sandbox, next_sandbox, published,
                   seen_calls>>
    /\ UNCHANGED <<fetch_failures, client_vars, context_calls, answered>>
    /\ UNCHANGED shape_vars

\* A for loop that an item's exception ends.
AfterItemStopOnError(i) ==
    IF i < Len(notifications) /\ response.text # PROCESSING_ERROR THEN "process" ELSE "close"

\* _process_batch line 140: where the for loop goes after item i.
AfterItem(i) == IF i < Len(notifications) THEN "process" ELSE "close"

\* _process_batch line 150: _send_response.  A failure of send_post is logged
\* and the loop goes on.
SendResponse ==
    /\ pc = "send"
    /\ \E ok \in BOOLEAN :
           /\ ok \/ MayFail
           /\ faults' = IF ok THEN faults ELSE faults + 1
           /\ published' = published \o send_response(notifications[idx], response, ok)
    /\ response' = Unbound
    /\ idx' = idx + 1
    /\ pc' = AfterItem(idx)
    /\ UNCHANGED <<server_vars, last_seen_at, all_notifications, notifications,
                   request, sandbox_vars, executions, sandbox_calls, seen_calls>>
    /\ UNCHANGED <<fetch_failures, client_vars, context_calls, answered>>
    /\ UNCHANGED shape_vars

\* An after_batch_processing that keeps the handle when kill raised.
HandleKeptOnFailure(ok) == IF ok THEN NoSandbox ELSE sandbox

\* after_batch_processing lines 293-294: self.sandbox after the kill call,
\* whether it went through or not.
HandleAfterKill(ok) == NoSandbox

\* _process_batch lines 152-154: after_batch_processing.
AfterBatchProcessing ==
    /\ pc = "close"
    /\ IF sandbox # NoSandbox
       THEN \E ok \in BOOLEAN :
                /\ ok \/ MayFail
                /\ faults' = IF ok THEN faults ELSE faults + 1
                /\ live' = IF ok THEN live \ {sandbox} ELSE live
                /\ sandbox_calls' =
                       Append(sandbox_calls, SandboxCall("kill", sandbox, "batch", ok, 0, NoRequest))
                /\ sandbox' = HandleAfterKill(ok)
       ELSE UNCHANGED <<faults, live, sandbox_calls, sandbox>>
    /\ pc' = IF notifications # <<>> THEN "mark_seen" ELSE "sleep"
    /\ UNCHANGED <<server_vars, batch_vars, item_vars, sandbox_to_use,
                   local_sandbox, next_sandbox, published, executions, seen_calls>>
    /\ UNCHANGED <<fetch_failures, client_vars, context_calls, answered>>
    /\ UNCHANGED shape_vars

\* The time of the call instead of the captured timestamp.
SeenTimestampNow == clock

\* The timestamp _process_batch passes to _update_seen (line 155).
SeenTimestamp == last_seen_at

\* A retry that gives up at the second failed attempt.
AfterSeenFailureGiveUp(failures) == IF failures >= 2 THEN "recover" ELSE "mark_seen"

\* @retry of _update_seen (line 78): no number of tries is given, so after
\* any number of failed attempts the call is made again.
AfterSeenFailure(failures) == "mark_seen"

\* _update_seen: one attempt of the retried call.  A failed attempt is
\* followed by another attempt with the same argument.
UpdateSeen ==
    /\ pc = "mark_seen"
    /\ \/ /\ seen_at' = SeenTimestamp
          /\ seen_calls' = Append(seen_calls, [seen_at |-> SeenTimestamp, ok |-> TRUE])
          /\ pc' = "sleep"
          /\ UNCHANGED faults
       \/ /\ MayFail
          /\ faults' = faults + 1
          /\ seen_calls' = Append(seen_calls, [seen_at |-> SeenTimestamp, ok |-> FALSE])
          /\ pc' = AfterSeenFailure(Len(seen_calls) + 1)
          /\ UNCHANGED seen_at
    /\ UNCHANGED <<clock, inbox, batch_vars, item_vars, sandbox_vars,
                   published, executions, sandbox_calls>>
    /\ UNCHANGED <<fetch_failures, client_vars, context_calls, answered>>
    /\ UNCHANGED shape_vars

\* run lines 182-187: an error of _handle_client_operations is logged and the
\* client is created again; a failure of that login is logged too.
RecoverClient ==
    /\ pc = "recover"
    /\ \/ /\ client_calls' = Append(client_calls, ClientCall("login", TRUE))
          /\ UNCHANGED faults
       \/ /\ MayFail
          /\ faults' = faults + 1
          /\ client_calls' = Append(client_calls, ClientCall("login", FALSE))
    /\ pc' = "sleep"
    /\ UNCHANGED <<server_vars, batch_vars, item_vars, sandbox_vars, log_vars>>
    /\ UNCHANGED <<fetch_failures, context_calls, paused, session_file, answered>>
    /\ UNCHANGED shape_vars

\* Timestamps are compared, never computed with: at the end of a cycle the
\* epoch moves, so that the notifications the seen marker covers are at 0,
\* the others at 1, like the clock the next cycle reads.
Rebase(t) == IF t <= seen_at THEN 0 ELSE 1

\* The end of a cycle: the locals of the cycle are gone, the logs start anew,
\* and what is left of the sandboxes (timeout 20 s) has expired by the end of
\* the pause.
EndCycle ==
    /\ inbox' = [i \in 1..Len(inbox) |->
                    [inbox[i] EXCEPT !.indexed_at = Rebase(inbox[i].indexed_at)]]
    /\ seen_at' = 0
    /\ clock' = 1
    /\ pc' = "health"
    /\ last_seen_at' = 0
    /\ all_notifications' = <<>>
    /\ notifications' = <<>>
    /\ idx' = 0
    /\ response' = Unbound
    /\ request' = NoRequest
    /\ sandbox_to_use' = NoSandbox
    /\ local_sandbox' = FALSE
    /\ live' = {}
    /\ next_sandbox' = 1
    /\ published' = <<>>
    /\ executions' = <<>>
    /\ sandbox_calls' = <<>>
    /\ seen_calls' = <<>>
    /\ fetch_failures' = 0
    /\ context_calls' = <<>>
    /\ UNCHANGED <<faults, sandbox, client_calls, session_file>>
    /\ UNCHANGED shape_vars

\* run line 192: sleep(self.poll_interval).
Sleep ==
    /\ pc = "sleep"
    /\ paused' = POLL_PAUSE
    /\ EndCycle
    /\ UNCHANGED answered

\* run lines 176-177: sleep(self.poll_interval * 2); continue.
LongSleep ==
    /\ pc = "long_sleep"
    /\ paused' = LONG_PAUSE
    /\ EndCycle
    /\ UNCHANGED answered

Next ==
    \/ Arrive
    \/ RecreateClientIfNeeded
    \/ GetCurrentTime
    \/ FetchNotifications
    \/ FilterNotifications
    \/ BeforeBatchProcessing
    \/ ProcessNotification
    \/ ExecuteCode
    \/ SendResponse
    \/ AfterBatchProcessing
    \/ UpdateSeen
    \/ RecoverClient
    \/ Sleep
    \/ LongSleep

Spec == Init /\ [][Next]_vars

\* ------------------------------------------------- the cycles' history
\* The run loop with the history of its cycles: at the end of a cycle that
\* has marked its notifications seen, the notifications a response was
\* published for (the send_post call went through) are remembered.
SleepRemembering ==
    /\ pc = "sleep"
    /\ paused' = POLL_PAUSE
    /\ EndCycle
    /\ answered' =
           IF seen_calls # <<>> /\ seen_calls[Len(seen_calls)].ok
           THEN answered \cup {published[i].uri : i \in {j \in 1..Len(published) : published[j].ok}}
           ELSE answered

HistoryNext ==
    \/ Arrive
    \/ RecreateClientIfNeeded
    \/ GetCurrentTime
    \/ FetchNotifications
    \/ FilterNotifications
    \/ BeforeBatchProcessing
    \/ ProcessNotification
    \/ ExecuteCode
    \/ SendResponse
    \/ AfterBatchProcessing
    \/ UpdateSeen
    \/ RecoverClient
    \/ SleepRemembering
    \/ LongSleep

HistorySpec == Init /\ [][HistoryNext]_vars

\* -------------------------------------------------- filtering a listing
\* The five flags of author.viewer the base filters look at.
RelationshipFlags ==
    {"blocked_by", "blocking", "blocking_by_list", "muted", "muted_by_list"}

\* The flags an author of a listing has: none, each one alone, or all.
ViewerFlagSets == {{}} \cup {{f} : f \in RelationshipFlags} \cup {RelationshipFlags}

\* What a notification of a listing can be: any reason, flags and text, a
\* reply record for the reason reply.
ListedProfiles ==
    {Profile(r, v, t, r = "reply") :
        r \in {"mention", "reply", "like"}, v \in ViewerFlagSets, t \in {T_hash, T_plain}}

\* The lists the server can hold, newest first: the notifications the seen
\* marker covers (indexed at 0) come after the others (indexed at 1).
Inboxes ==
    UNION {{f \in [1..n -> ListedProfiles \X {0, 1}] :
               \A i \in 1..(n - 1) : f[i][2] >= f[i + 1][2]} : n \in 0..MaxBatch}

\* A cycle that has captured its timestamp and is about to list what the
\* server holds; no collaborator fails from here on.
FilterInit ==
    /\ \E f \in Inboxes :
           inbox = [i \in 1..Len(f) |->
                       Notification(Len(f) + 1 - i,
                                    IF f[i][1].reason = "reply" THEN "carol" ELSE "alice",
                                    f[i][1], f[i][2])]
    /\ clock = 2
    /\ seen_at = 0
    /\ pc = "list"
    /\ faults = MaxFaults
    /\ last_seen_at = 1
    /\ all_notifications = <<>>
    /\ notifications = <<>>
    /\ idx = 0
    /\ response = Unbound
    /\ request = NoRequest
    /\ sandbox = NoSandbox
    /\ sandbox_to_use = NoSandbox
    /\ local_sandbox = FALSE
    /\ live = {}
    /\ next_sandbox = 1
    /\ published = <<>>
    /\ executions = <<>>
    /\ sandbox_calls = <<>>
    /\ seen_calls = <<>>
    /\ fetch_failures = 0
    /\ client_calls = <<ClientCall("get_profile", TRUE)>>
    /\ context_calls = <<>>
    /\ paused = 0
    /\ session_file = "absent"
    /\ answered = {}
    /\ output = <<>>
    /\ result_text = <<>>
    /\ shaped = FALSE

FilterNext ==
    \/ FetchNotifications
    \/ FilterNotifications

FilterSpec == FilterInit /\ [][FilterNext]_vars

\* ---------------------------------------------------- parsing a request
\* Texts that start with "#!" once trimmed: the marker, then an addressee, a
\* language and a further token, each present or not and set apart or not,
\* then the lines that follow, if any.
ShebangTexts ==
    {lead \o <<"#", "!">> \o gap1 \o addressee \o gap2 \o language \o more \o lines :
        lead \in {<<>>, <<"SP">>, <<"NL">>},
        gap1 \in {<<>>, <<"SP">>, <<"SP", "SP">>},
        addressee \in {<<>>, <<"@", "bot">>, <<"@", "eve">>, <<"bot">>},
        gap2 \in {<<>>, <<"SP">>},
        language \in {<<>>, <<"python">>, <<"#", "python">>, <<"#", "#", "python">>,
                      <<"sh">>, <<"#">>},
        more \in {<<>>, <<"SP">>, <<"SP", "x">>},
        lines \in {<<>>, <<"NL">>, <<"NL", "SP">>, <<"NL", "x">>,
                   <<"NL", "x", "NL", "y">>, <<"NL", "NL", "x", "SP">>}}

\* _process_batch has opened the batch sandbox for a batch of one
\* notification and is about to process it; no collaborator fails from here
\* on.
ParseInit ==
    /\ \E t \in ShebangTexts :
           LET note == Notification(1, "alice", Profile("mention", {}, t, FALSE), 1)
               listed == [uri |-> note.uri, author |-> note.author, reason |-> note.reason,
                          viewer |-> note.viewer, text |-> note.text, reply |-> note.reply,
                          is_read |-> FALSE]
           IN  /\ inbox = <<note>>
               /\ all_notifications = <<listed>>
               /\ notifications = <<listed>>
    /\ clock = 2
    /\ seen_at = 0
    /\ pc = "process"
    /\ faults = MaxFaults
    /\ last_seen_at = 1
    /\ idx = 1
    /\ response = Unbound
    /\ request = NoRequest
    /\ sandbox = 1
    /\ sandbox_to_use = NoSandbox
    /\ local_sandbox = FALSE
    /\ live = {1}
    /\ next_sandbox = 2
    /\ published = <<>>
    /\ executions = <<>>
    /\ sandbox_calls = <<[op |-> "open", sb |-> 1, scope |-> "batch", ok |-> TRUE,
                          was_live |-> FALSE, uri |-> 0, code |-> NoRequest]>>
    /\ seen_calls = <<>>
    /\ fetch_failures = 0
    /\ client_calls = <<ClientCall("get_profile", TRUE)>>
    /\ context_calls = <<>>
    /\ paused = 0
    /\ session_file = "absent"
    /\ answered = {}
    /\ output = <<>>
    /\ result_text = <<>>
    /\ shaped = FALSE

ParseNext == ProcessNotification

ParseSpec == ParseInit /\ [][ParseNext]_vars

\* ----------------------------------------------------------- output shaping
\* s[:n] of Python for any integer n
SliceTo(s, n) == IF n >= 0 THEN Prefix(s, n) ELSE SubSeq(s, 1, Max(Len(s) + n, 0))

ELLIPSIS == <<".", ".", ".">>

\* _execute_code lines 381-387: the text of the result for the joined output.
format_output(out) ==
    LET cut == IF Len(out) > TRUNCATE_LIMIT
               THEN LET rightmost_newline == rfind(Prefix(out, TRUNCATE_WINDOW), "NL")
                        rightmost_space == rfind(Prefix(out, TRUNCATE_WINDOW), "SP")
                        cutoff == Max(rightmost_newline, rightmost_space)
                    IN  SliceTo(out, cutoff) \o ELLIPSIS
               ELSE out
    IN  strip(cut)

\* Lengths of the outputs that are shaped, around the limit and beyond it.
OutputLengths == {0, 3, 296, 297, 298, 299, 300, 301, 302, 350}

\* Where an output may have its space and its newline (0: it has none).
BoundaryPositions == {0, 1, 2, 150, 296, 297, 298, 300, 301}

\* The output of length n with a space at sp and a newline at nl.
Output(n, sp, nl) ==
    [i \in 1..n |-> IF i = sp THEN "SP" ELSE IF i = nl THEN "NL" ELSE "a"]

ShapeInit ==
    /\ InitBot
    /\ \E n \in OutputLengths, sp \in BoundaryPositions, nl \in BoundaryPositions :
           output = Output(n, sp, nl)
    /\ result_text = <<>>
    /\ shaped = FALSE

ShapeOutput ==
    /\ ~shaped
    /\ result_text' = format_output(output)
    /\ shaped' = TRUE
    /\ UNCHANGED <<output, bot_vars>>

ShapeNext == ShapeOutput

ShapeSpec == ShapeInit /\ [][ShapeNext]_vars

\* ------------------------------------------------------------------ claims
Uris(s) == [i \in 1..Len(s) |-> s[i].uri]

\* The elements of s at the positions in I, in the order of s.
RECURSIVE SubseqAt(_, _, _)
SubseqAt(s, I, i) ==
    IF i > Len(s) THEN <<>>
    ELSE (IF i \in I THEN <<s[i]>> ELSE <<>>) \o SubseqAt(s, I, i + 1)

IsOverflow(call) == call.text = TOO_MANY

InBatch == pc \in {"process", "execute", "send"}

AfterBatch == pc \in {"close", "mark_seen"} \/ (pc = "sleep" /\ notifications # <<>>)

\* C1: right after filter_notifications, the forwarded notifications are the
\* first eligible notification of each author, in stream order, and the
\* published responses are one overflow response for each later eligible
\* notification of an author already seen, in stream order; at no point of
\* the cycle is a notification that got the overflow response in the batch or
\* in the execution records.
C1_RateLimiter ==
    /\ pc = "open" =>
           LET eligible == content_filtered(all_notifications)
               first == {i \in 1..Len(eligible) :
                            \A j \in 1..(i - 1) : eligible[j].author # eligible[i].author}
           IN  /\ notifications = SubseqAt(eligible, first, 1)
               /\ Uris(published) = Uris(SubseqAt(eligible, (1..Len(eligible)) \ first, 1))
               /\ \A i \in 1..Len(published) : IsOverflow(published[i])
               /\ \A i, j \in 1..Len(notifications) :
                      i # j => notifications[i].author # notifications[j].author
    /\ \A i \in 1..Len(published) :
           IsOverflow(published[i]) =>
               /\ \A j \in 1..Len(notifications) : notifications[j].uri # published[i].uri
               /\ \A j \in 1..Len(executions) : executions[j].url # published[i].uri
               /\ \A j \in 1..Len(sandbox_calls) : sandbox_calls[j].uri # published[i].uri

\* C1 witness: a batch was filtered in which one author has a forwarded
\* notification and a later one that got the overflow response.
C1_Witness ==
    /\ pc = "open"
    /\ Len(published) >= 1
    /\ \E i \in 1..Len(notifications) :
           \E j \in 1..Len(all_notifications) :
               /\ all_notifications[j].uri = published[1].uri
               /\ all_notifications[j].author = notifications[i].author

\* C2: in a cycle no two responses are published for the same notification.
C2_OneResultPerUri ==
    \A i, j \in 1..Len(published) : i # j => published[i].uri # published[j].uri

\* C2 witness: a cycle has published an overflow response and the response of
\* a processed notification.
C2_Witness ==
    /\ \E i \in 1..Len(published) : IsOverflow(published[i])
    /\ \E i \in 1..Len(published) : ~IsOverflow(published[i])

\* C3: update_seen is called only after the batch was processed, every call
\* carries the timestamp captured before the listing, which is earlier than
\* the time of the processing; a cycle with a non-empty batch that goes to
\* sleep has made exactly one call that went through, its last one; a cycle
\* with an empty batch makes no call.
C3_MarkSeen ==
    /\ \A i \in 1..Len(seen_calls) :
           /\ seen_calls[i].seen_at = last_seen_at
           /\ seen_calls[i].seen_at < clock
           /\ seen_calls[i].ok <=> (i = Len(seen_calls) /\ pc = "sleep")
    /\ seen_calls # <<>> => pc \in {"mark_seen", "sleep"} /\ notifications # <<>>
    /\ (pc = "sleep" /\ notifications # <<>>) =>
           /\ seen_calls # <<>>
           /\ seen_at = last_seen_at
    /\ pc = "mark_seen" => Len(published) >= Len(notifications)
    /\ notifications = <<>> => seen_calls = <<>>

\* C3 witness: a cycle with a batch has marked the notifications seen while a
\* notification that arrived after the timestamp was taken is in the batch.
C3_Witness ==
    /\ pc = "sleep"
    /\ seen_calls # <<>>
    /\ \E i \in 1..Len(inbox) :
           /\ inbox[i].indexed_at > last_seen_at
           /\ \E j \in 1..Len(notifications) : notifications[j].uri = inbox[i].uri

\* C3 witness of the other case: a cycle ends with an empty batch.
C3_WitnessEmpty ==
    /\ pc = "sleep"
    /\ all_notifications # <<>>
    /\ notifications = <<>>
    /\ seen_calls = <<>>

ExecutionResults == {OUTPUT, EXECUTION_ERROR, SANDBOX_ERROR}

ParseErrors == {MISSING_BODY, INVALID_SHEBANG, WRONG_INTERPRETER}

RowsFor(uri) == {j \in 1..Len(executions) : executions[j].url = uri}

\* The responses published for the items of the batch, in order.
Answers == LET answer(call) == ~IsOverflow(call) IN SelectSeq(published, answer)

\* C4 as claimed: when process_notification has returned for an item with a
\* result of the execution or with a parse failure, the item has exactly one
\* execution record.
C4_EveryAttemptRecorded ==
    (pc = "send" /\ response.text \in ExecutionResults \cup ParseErrors) =>
        Cardinality(RowsFor(notifications[idx].uri)) = 1

\* C4 amended: when process_notification has returned the result of
\* _execute_code for an item (the output, the execution error or the sandbox
\* error), the item has exactly one execution record, with the item's text,
\* the result's text, the author, the URI and the time; when it has returned
\* a parse failure, or raised, the item has no execution record.  Every item
\* answered earlier in the cycle has its one record, or none, the same way.
C4_ExecutionsRecorded ==
    /\ pc = "send" =>
           LET note == notifications[idx]
               rows == RowsFor(note.uri)
           IN  /\ response.text \in ExecutionResults =>
                      /\ Cardinality(rows) = 1
                      /\ \A j \in rows :
                             /\ executions[j].input = note.text
                             /\ executions[j].output = response.text
                             /\ executions[j].author = note.author
                             /\ executions[j].ts = clock
               /\ response.text \notin ExecutionResults =>
                      /\ response.text \in ParseErrors \cup {PROCESSING_ERROR}
                      /\ rows = {}
    /\ \A i \in 1..Len(Answers) :
           IF Answers[i].text \in ExecutionResults
           THEN /\ Cardinality(RowsFor(Answers[i].uri)) = 1
                /\ \A j \in RowsFor(Answers[i].uri) : executions[j].output = Answers[i].text
           ELSE RowsFor(Answers[i].uri) = {}

\* C4 witness: an item failed in the sandbox and was recorded, and the next
\* item of the batch fails in the parsing and is not.
C4_Witness ==
    /\ pc = "send"
    /\ response.text \in ParseErrors
    /\ \E j \in 1..Len(executions) : executions[j].output = EXECUTION_ERROR
    /\ RowsFor(notifications[idx].uri) = {}

\* C5: whatever happens to an item, the items of the batch are answered one
\* by one in batch order: while the batch is processed the items before the
\* current one have one response each, and after it every item has.
C5_EveryItemAnswered ==
    /\ InBatch => Uris(Answers) = Uris(SubSeq(notifications, 1, idx - 1))
    /\ AfterBatch => Uris(Answers) = Uris(notifications)
    /\ \A i \in 1..Len(Answers) :
           Answers[i].text \in ExecutionResults \cup ParseErrors \cup {PROCESSING_ERROR}

\* C5 witness: process_notification raised for the first item of a batch and
\* the second item was answered after it.
C5_Witness ==
    /\ AfterBatch
    /\ Len(Answers) = 2
    /\ Answers[1].text = PROCESSING_ERROR

\* C6: a send_post call that failed is the only call for its notification;
\* a cycle in which one failed still answers every item of the batch, holds
\* no sandbox when it goes to sleep, has killed the batch sandbox it opened
\* and has marked the notifications seen.
C6_PublishFailureSwallowed ==
    (\E k \in 1..Len(published) : ~published[k].ok) =>
        /\ \A i \in 1..Len(published) :
               ~published[i].ok =>
                   \A j \in 1..Len(published) : j # i => published[j].uri # published[i].uri
        /\ InBatch => Len(Answers) = idx - 1
        /\ (pc = "sleep" /\ notifications # <<>>) =>
               /\ Uris(Answers) = Uris(notifications)
               /\ sandbox = NoSandbox
               /\ \A i \in 1..Len(sandbox_calls) :
                      (sandbox_calls[i].op = "open" /\ sandbox_calls[i].scope = "batch"
                       /\ sandbox_calls[i].ok) =>
                          \E j \in (i + 1)..Len(sandbox_calls) :
                              /\ sandbox_calls[j].op = "kill"
                              /\ sandbox_calls[j].sb = sandbox_calls[i].sb
               /\ seen_calls # <<>>
               /\ seen_calls[Len(seen_calls)].ok

\* C6 witness: the response of the first item could not be published, the
\* second item was answered, the batch sandbox killed and the cycle sleeps.
C6_Witness ==
    /\ pc = "sleep"
    /\ Len(Answers) = 2
    /\ ~Answers[1].ok
    /\ Answers[2].ok
    /\ \E i \in 1..Len(sandbox_calls) : sandbox_calls[i].op = "kill"

\* The outcome of the parsing for each text that arrives: the error text, or
\* "" when the text parses.
ParseErrorOf == [t \in {ap[2].text : ap \in Arrivals} |-> parse_notification(t).error]

BatchOpenFailed ==
    \E i \in 1..Len(sandbox_calls) :
        /\ sandbox_calls[i].op = "open"
        /\ sandbox_calls[i].scope = "batch"
        /\ ~sandbox_calls[i].ok

ItemOpens(uri) ==
    {j \in 1..Len(sandbox_calls) :
        /\ sandbox_calls[j].op = "open"
        /\ sandbox_calls[j].scope = "item"
        /\ sandbox_calls[j].uri = uri}

\* C7: when the batch sandbox could not be opened, every answered item whose
\* shebang parses had one sandbox opened for it alone, and its response is
\* the result of the execution when that sandbox opened and the sandbox error
\* when it did not (or the processing error when the insert raised); an item
\* whose shebang does not parse has its parse error; after the batch every
\* item is answered.
C7_PerItemFallback ==
    BatchOpenFailed =>
        /\ AfterBatch => Uris(Answers) = Uris(notifications)
        /\ \A i \in 1..Len(Answers) :
               LET note == notifications[i]
                   opens == ItemOpens(note.uri)
               IN  /\ Answers[i].uri = note.uri
                   /\ IF ParseErrorOf[note.text] = ""
                      THEN /\ Cardinality(opens) = 1
                           /\ \A j \in opens :
                                  IF sandbox_calls[j].ok
                                  THEN /\ Answers[i].text \in
                                              {OUTPUT, EXECUTION_ERROR, PROCESSING_ERROR}
                                       /\ \E r \in (j + 1)..Len(sandbox_calls) :
                                              /\ sandbox_calls[r].op = "run"
                                              /\ sandbox_calls[r].sb = sandbox_calls[j].sb
                                              /\ sandbox_calls[r].uri = note.uri
                                  ELSE Answers[i].text \in {SANDBOX_ERROR, PROCESSING_ERROR}
                      ELSE /\ opens = {}
                           /\ Answers[i].text \in ParseErrors

\* C7 witness: the batch sandbox did not open, one item ran on a sandbox of
\* its own and another one got the sandbox error.
C7_Witness ==
    /\ AfterBatch
    /\ BatchOpenFailed
    /\ \E i \in 1..Len(Answers) : Answers[i].text = OUTPUT
    /\ \E i \in 1..Len(Answers) : Answers[i].text = SANDBOX_ERROR

BatchSandboxes ==
    {sandbox_calls[i].sb : i \in {j \in 1..Len(sandbox_calls) :
        /\ sandbox_calls[j].op = "open"
        /\ sandbox_calls[j].scope = "batch"
        /\ sandbox_calls[j].ok}}

Kills(sb) ==
    {j \in 1..Len(sandbox_calls) : sandbox_calls[j].op = "kill" /\ sandbox_calls[j].sb = sb}

\* C8: the batch sandbox is held and not killed while the batch is processed;
\* once after_batch_processing has run, before update_seen and the sleep,
\* there is exactly one kill call for it, the last call to the sandbox
\* service, after which the sandbox is gone when the call went through; no
\* handle is held outside the batch, so none when the next cycle starts.
C8_BatchSandboxTornDownOnce ==
    /\ ~(InBatch \/ pc = "close") => sandbox = NoSandbox
    /\ \A sb \in BatchSandboxes :
           /\ (InBatch \/ pc = "close") =>
                  /\ sandbox = sb
                  /\ Kills(sb) = {}
                  /\ sb \in live
           /\ pc \in {"mark_seen", "sleep"} =>
                  /\ Kills(sb) = {Len(sandbox_calls)}
                  /\ sandbox_calls[Len(sandbox_calls)].scope = "batch"
                  /\ sandbox_calls[Len(sandbox_calls)].ok => sb \notin live
    /\ seen_calls # <<>> => sandbox = NoSandbox

\* C8 witness: an execution failed, process_notification raised for another
\* item, and the batch sandbox is killed before update_seen.
C8_Witness ==
    /\ pc = "mark_seen"
    /\ BatchSandboxes # {}
    /\ \E i \in 1..Len(Answers) : Answers[i].text = PROCESSING_ERROR
    /\ \E i \in 1..Len(sandbox_calls) :
           sandbox_calls[i].op = "run" /\ ~sandbox_calls[i].ok
    /\ Kills(sandbox_calls[1].sb) # {}

\* C9 as claimed: at most one sandbox is live in every state, and run_code is
\* never called on a sandbox that is not live.
C9_AtMostOneLiveSandbox ==
    /\ Cardinality(live) <= 1
    /\ \A i \in 1..Len(sandbox_calls) :
           sandbox_calls[i].op = "run" => sandbox_calls[i].was_live

\* C10 as claimed: an output of more than 300 characters becomes the output
\* up to its last space or newline among the first 297 characters, or those
\* 297 characters when there is none, followed by the ellipsis (and trimmed
\* as every result text is), and has at most 300 characters.
C10_Truncation ==
    (shaped /\ Len(output) > TRUNCATE_LIMIT) =>
        LET window == Prefix(output, TRUNCATE_WINDOW)
            boundaries == {i \in 1..Len(window) : IsSpace(window[i])}
            last == CHOOSE i \in boundaries : \A j \in boundaries : j <= i
            expected == IF boundaries # {}
                        THEN SubSeq(output, 1, last - 1) \o ELLIPSIS
                        ELSE window \o ELLIPSIS
        IN  /\ result_text = strip(expected)
            /\ Len(result_text) <= TRUNCATE_LIMIT

\* Nothing of the cycle's work is done: no notification is listed, filtered
\* or processed, no response published, no sandbox opened, nothing marked
\* seen.
NothingProcessed ==
    /\ all_notifications = <<>>
    /\ notifications = <<>>
    /\ published = <<>>
    /\ executions = <<>>
    /\ sandbox_calls = <<>>
    /\ context_calls = <<>>
    /\ seen_calls = <<>>
    /\ sandbox = NoSandbox

SkippedCycle ==
    /\ Len(client_calls) = 2
    /\ client_calls[1] = ClientCall("get_profile", FALSE)
    /\ client_calls[2] = ClientCall("login", FALSE)

RunPositions ==
    {"health", "timestamp", "list", "filter", "open", "process", "execute", "send",
     "close", "mark_seen", "recover", "sleep", "long_sleep"}

\* C12: whatever fails, run stays in its loop; the loop is at its head only
\* at the start and after a pause; when get_profile and the login after it
\* have failed, the cycle does nothing else (no timestamp, no listing, no
\* processing, no update_seen) and the pause before the next cycle is twice
\* the poll interval, while every other cycle is followed by a pause of one
\* poll interval; a login that fails in the error handling of run goes on
\* to the pause as well.
C12_RunSurvives ==
    /\ pc \in RunPositions
    /\ client_calls # <<>>
    /\ (SkippedCycle /\ pc # "health") =>
           /\ pc = "long_sleep"
           /\ last_seen_at = 0
           /\ NothingProcessed
    /\ pc = "long_sleep" => SkippedCycle
    /\ pc = "health" =>
           paused = IF SkippedCycle THEN LONG_PAUSE
                    ELSE IF client_calls = <<ClientCall("login", TRUE)>> THEN 0
                    ELSE POLL_PAUSE
    /\ pc # "health" => paused = 0
    /\ (pc # "health" /\ Len(client_calls) >= 2 /\ client_calls[1].ok) =>
           /\ pc = "sleep"
           /\ client_calls[Len(client_calls)].op = "login"

\* C12 witness: a cycle was skipped while a notification waited, and the
\* next cycle starts after the long pause.
C12_Witness ==
    /\ pc = "health"
    /\ SkippedCycle
    /\ paused = LONG_PAUSE
    /\ inbox # <<>>

\* C13 as claimed: a login that went through has left its session in the
\* session file, and a login made while a session is stored there uses that
\* session, not the password.
C13_SessionPersistedAndReused ==
    \A i \in 1..Len(client_calls) :
        client_calls[i].op = "login" =>
            /\ client_calls[i].ok => session_file = "stored"
            /\ session_file = "stored" => client_calls[i].with = "session"

\* The text has "#!" after its leading whitespace.
StartsWithShebang(t) ==
    \E k \in 1..(Len(t) - 1) :
        /\ \A j \in 1..(k - 1) : IsSpace(t[j])
        /\ t[k] = "#"
        /\ t[k + 1] = "!"

Eligible(n) ==
    /\ ~n.is_read
    /\ n.reason \in {"mention", "reply"}
    /\ n.viewer \cap RelationshipFlags = {}
    /\ StartsWithShebang(n.text)

\* The position in the listing of the notification a record or a call names.
ListedAt(u) == CHOOSE i \in 1..Len(all_notifications) : all_notifications[i].uri = u

InListingOrder(s) ==
    \A i, j \in 1..Len(s) : i < j => ListedAt(s[i].uri) < ListedAt(s[j].uri)

\* C14: for every listing, the notifications that reach the rate limiter,
\* which forwards them to the batch or answers them with the overflow
\* response, are exactly the unread ones with reason mention or reply, none
\* of the five flags and a text that starts with "#!" once trimmed; they are
\* the listed records, in the order of the listing.
C14_FilterPipeline ==
    pc = "open" =>
        LET kept == {i \in 1..Len(all_notifications) : Eligible(all_notifications[i])}
        IN  /\ content_filtered(all_notifications) = SubseqAt(all_notifications, kept, 1)
            /\ {notifications[i].uri : i \in 1..Len(notifications)}
                   \cup {published[i].uri : i \in 1..Len(published)}
                   = {all_notifications[i].uri : i \in kept}
            /\ \A i \in 1..Len(notifications) :
                   notifications[i] = all_notifications[ListedAt(notifications[i].uri)]
            /\ InListingOrder(notifications)
            /\ InListingOrder(published)
            /\ \A i \in 1..Len(all_notifications) :
                   (all_notifications[i].is_read \/ all_notifications[i].viewer # {}) =>
                       /\ \A j \in 1..Len(notifications) :
                              notifications[j].uri # all_notifications[i].uri
                       /\ \A j \in 1..Len(published) :
                              published[j].uri # all_notifications[i].uri

\* C14 witness: a listing was filtered in which one notification is kept and
\* another one, unread, a mention or a reply, with the shebang, is left out
\* for a flag of its author.
C14_Witness ==
    /\ pc = "open"
    /\ Len(notifications) = 1
    /\ \E i \in 1..Len(all_notifications) :
           /\ all_notifications[i].viewer = {"muted_by_list"}
           /\ ~all_notifications[i].is_read
           /\ all_notifications[i].reason = "reply"
           /\ StartsWithShebang(all_notifications[i].text)

\* Where the tokens of a line start: at a character that is no whitespace
\* and follows whitespace or nothing.
TokenStarts(l) == {i \in 1..Len(l) : ~IsSpace(l[i]) /\ (i = 1 \/ IsSpace(l[i - 1]))}

\* The token of line l that starts at i.
TokenFrom(l, i) ==
    LET end == CHOOSE j \in i..Len(l) :
                   /\ \A k \in i..j : ~IsSpace(l[k])
                   /\ j = Len(l) \/ IsSpace(l[j + 1])
    IN  SubSeq(l, i, end)

\* The n-th token of line l.
Token(l, n) ==
    TokenFrom(l, CHOOSE i \in TokenStarts(l) :
                     Cardinality({j \in TokenStarts(l) : j < i}) = n - 1)

\* C15: process_notification gives a text that starts with "#!" exactly one
\* outcome, decided in this order: the missing-body reply when the trimmed
\* text has no line after the first; the invalid-shebang reply when the
\* first line has not exactly three tokens; the wrong-interpreter reply when
\* the second token is not "@" and the handle of the bot; otherwise the
\* request is executed, its language the third token without one leading
\* "#", its code all that follows the first line.  The three replies differ
\* from each other.
C15_ShebangParsing ==
    /\ Cardinality({MISSING_BODY, INVALID_SHEBANG, WRONG_INTERPRETER}) = 3
    /\ pc \in {"send", "execute"} =>
           LET t == strip(notifications[idx].text)
               newlines == {i \in 1..Len(t) : t[i] = "NL"}
               first == CHOOSE i \in newlines : \A j \in newlines : i <= j
               line == SubSeq(t, 1, first - 1)
               third == Token(line, 3)
           IN  IF newlines = {}
               THEN pc = "send" /\ response = Response(MISSING_BODY) /\ request = NoRequest
               ELSE IF Cardinality(TokenStarts(line)) # 3
               THEN pc = "send" /\ response = Response(INVALID_SHEBANG) /\ request = NoRequest
               ELSE IF Token(line, 2) # <<"@", me_handle>>
               THEN pc = "send" /\ response = Response(WRONG_INTERPRETER) /\ request = NoRequest
               ELSE /\ pc = "execute"
                    /\ response = Unbound
                    /\ request.lang = IF third[1] = "#" THEN SubSeq(third, 2, Len(third))
                                      ELSE third
                    /\ request.code = SubSeq(t, first + 1, Len(t))

\* C15 witness: a request is executed whose language was written "#python",
\* with more than one line of code.
C15_Witness ==
    /\ pc = "execute"
    /\ request.lang = <<"python">>
    /\ Cardinality({i \in 1..Len(notifications[idx].text) : notifications[idx].text[i] = "#"}) = 2
    /\ \E i \in 1..Len(request.code) : request.code[i] = "NL"

CallsFor(calls, uri) == {j \in 1..Len(calls) : calls[j].uri = uri}

\* C16: get_posts, Sandbox() and run_code are called for a notification only
\* once its text has parsed with the bot as addressee: none of them is
\* called for a notification before process_notification has started on it,
\* and a notification whose parsing fails has no get_posts call, no sandbox
\* opened for it, no run_code call and no execution record, while its
\* response is the parse error.
C16_ParsedBeforeFetchAndExecution ==
    /\ \A i \in 1..Len(notifications) :
           LET note == notifications[i]
               started == (InBatch /\ i < idx) \/ (pc \in {"execute", "send"} /\ i = idx)
                          \/ AfterBatch
           IN  (ParseErrorOf[note.text] # "" \/ ~started) =>
                   /\ CallsFor(context_calls, note.uri) = {}
                   /\ CallsFor(sandbox_calls, note.uri) = {}
                   /\ RowsFor(note.uri) = {}
    /\ \A i \in 1..Len(Answers) :
           ParseErrorOf[notifications[i].text] # "" =>
               Answers[i].text = ParseErrorOf[notifications[i].text]
    /\ pc = "execute" => ParseErrorOf[notifications[idx].text] = ""

\* C16 witness: a batch is done in which a reply with an invalid shebang was
\* answered and the code of another notification was run.
C16_Witness ==
    /\ AfterBatch
    /\ \E i \in 1..Len(Answers) :
           Answers[i].text = INVALID_SHEBANG /\ notifications[i].reply
    /\ \E j \in 1..Len(sandbox_calls) : sandbox_calls[j].op = "run"

\* C17: when get_posts has failed for a notification, every run_code call
\* for it is given the python code with the null payload, and the response
\* published for it is what the execution gave: the output when run_code
\* went through, the execution error when it raised, the sandbox error when
\* no sandbox could be opened for it (the processing error when the insert
\* raised), never an error of the context fetch; with a batch sandbox the
\* code is always run.
C17_ContextFailureRecovered ==
    \A k \in 1..Len(context_calls) :
        ~context_calls[k].ok =>
            LET u == context_calls[k].uri
                runs == {j \in CallsFor(sandbox_calls, u) : sandbox_calls[j].op = "run"}
                replies == {i \in 1..Len(Answers) : Answers[i].uri = u}
            IN  /\ \A j \in CallsFor(sandbox_calls, u) :
                       /\ sandbox_calls[j].op = "run" =>
                              /\ sandbox_calls[j].code.lang = <<"python">>
                              /\ sandbox_calls[j].code.payload = "null"
                              /\ sandbox_calls[j].code.code # <<>>
                /\ (pc = "execute" /\ notifications[idx].uri = u) => request.payload = "null"
                /\ \A i \in replies :
                       /\ Cardinality(runs) <= 1
                       /\ BatchSandboxes # {} => Cardinality(runs) = 1
                       /\ Answers[i].text =
                              IF RowsFor(u) = {} THEN PROCESSING_ERROR
                              ELSE IF runs = {} THEN SANDBOX_ERROR
                              ELSE IF \A j \in runs : sandbox_calls[j].ok THEN OUTPUT
                              ELSE EXECUTION_ERROR

\* C17 witness: get_posts failed for a reply, and the output of its code was
\* published.
C17_Witness ==
    \E k \in 1..Len(context_calls) :
        /\ ~context_calls[k].ok
        /\ \E i \in 1..Len(Answers) :
               /\ Answers[i].uri = context_calls[k].uri
               /\ Answers[i].text = OUTPUT
               /\ Answers[i].ok

\* C18: a sandbox opened for one execution gets the run_code call of that
\* notification and then the kill call, whether run_code went through or
\* raised, and no other call; both are made before process_notification
\* returns, so before the response is published; when kill goes through
\* the sandbox is gone.  Every kill call made while an item is processed is
\* for such a sandbox, never for the batch sandbox.
C18_PerItemSandboxTornDown ==
    /\ \A j \in 1..Len(sandbox_calls) :
           (sandbox_calls[j].op = "open" /\ sandbox_calls[j].scope = "item"
            /\ sandbox_calls[j].ok) =>
               LET sb == sandbox_calls[j].sb
                   uri == sandbox_calls[j].uri
               IN  IF pc = "execute" /\ j = Len(sandbox_calls)
                   THEN /\ sandbox_to_use = sb
                        /\ local_sandbox
                        /\ notifications[idx].uri = uri
                   ELSE /\ j + 2 <= Len(sandbox_calls)
                        /\ sandbox_calls[j + 1].op = "run"
                        /\ sandbox_calls[j + 1].sb = sb
                        /\ sandbox_calls[j + 1].uri = uri
                        /\ sandbox_calls[j + 2].op = "kill"
                        /\ sandbox_calls[j + 2].sb = sb
                        /\ sandbox_calls[j + 2].ok => sb \notin live
                        /\ {k \in 1..Len(sandbox_calls) : sandbox_calls[k].sb = sb}
                               = {j, j + 1, j + 2}
                        /\ \A i \in 1..Len(Answers) :
                               Answers[i].uri = uri => sb # sandbox_to_use
    /\ \A k \in 1..Len(sandbox_calls) :
           (sandbox_calls[k].op = "kill" /\ sandbox_calls[k].uri # 0) =>
               /\ sandbox_calls[k].scope = "item"
               /\ sandbox_calls[k].sb \notin BatchSandboxes
               /\ k > 2
               /\ sandbox_calls[k - 2].op = "open"
               /\ sandbox_calls[k - 2].sb = sandbox_calls[k].sb
    /\ (InBatch /\ sandbox # NoSandbox) => Kills(sandbox) = {}

\* C18 witness: a sandbox was opened for one notification, run_code raised
\* on it, it was killed, and the response is about to be published.
C18_Witness ==
    /\ pc = "send"
    /\ \E j \in 1..Len(sandbox_calls) :
           /\ sandbox_calls[j].op = "open"
           /\ sandbox_calls[j].scope = "item"
           /\ sandbox_calls[j].ok
           /\ j + 2 = Len(sandbox_calls)
           /\ ~sandbox_calls[j + 1].ok
           /\ sandbox_calls[j + 2].op = "kill"
           /\ sandbox_calls[j + 2].ok

\* C19: a list_notifications or update_seen call that fails is made again,
\* however many attempts have failed; _fetch_notifications returns only
\* with the list of an attempt that went through and _update_seen only
\* after an attempt that went through, all attempts before it having
\* failed; the error handling of run is never entered from either call, and
\* a cycle with a batch reaches its sleep only after update_seen went
\* through.
C19_RetriedUntilSuccess ==
    /\ fetch_failures > 0 => pc = "list"
    /\ pc = "filter" => all_notifications = ListNotifications
    /\ \A i \in 1..(Len(seen_calls) - 1) : ~seen_calls[i].ok
    /\ seen_calls # <<>> =>
           IF seen_calls[Len(seen_calls)].ok
           THEN pc = "sleep" /\ seen_at = last_seen_at
           ELSE pc = "mark_seen"
    /\ pc = "recover" => last_seen_at = 0 /\ NothingProcessed
    /\ pc = "sleep" =>
           \/ last_seen_at = 0 /\ NothingProcessed
           \/ notifications = <<>> /\ seen_calls = <<>> /\ last_seen_at > 0
           \/ seen_calls # <<>> /\ seen_calls[Len(seen_calls)].ok

\* C19 witness: update_seen failed twice, was called a third time, and the
\* cycle sleeps.
C19_Witness ==
    /\ pc = "sleep"
    /\ Len(seen_calls) = 3
    /\ seen_calls[3].ok

\* C20 as claimed (under HistorySpec): no response is published for a
\* notification that got a response in an earlier cycle which went on to
\* mark its notifications seen with the timestamp captured before its
\* listing.
C20_AnsweredAtMostOnce ==
    \A i \in 1..Len(published) :
        published[i].ok => published[i].uri \notin answered

====
